---- MODULE Spec2Model ----
(***************************************************************************)
(* State-machine model of the disclosure menu of                           *)
(* src/components/base/TrackCard/TrackCard.tsx (Menu, MenuButton,          *)
(* MenuItems, MenuItem).                                                   *)
(*                                                                         *)
(* The reactive cell menuState is written synchronously by the event       *)
(* handlers; the DOM is patched later, by the scheduler's flush job, and   *)
(* the callbacks given to nextTick run after the flush that was pending    *)
(* when they were registered.  The model keeps the microtask queue         *)
(* explicitly, so that the lag between the state and the rendered output   *)
(* is part of the state space.                                             *)
(***************************************************************************)
EXTENDS Integers, Sequences, FiniteSets, TLC

\* ------------------------------------------------------------------ bounds
MaxItems == 2    \* a Panel holds 0..MaxItems items
MaxQueue == 3    \* pending microtasks (flush job and nextTick callbacks)
MaxSib   == 1    \* largest position among its siblings of an element that is no item
MaxDepth == 4    \* deepest nesting of components in a mounted tree
MaxLen   == 3    \* longest text of the textarea

VARIABLES
  menuState,     \* Menu: menuState.value, "Opened" or "Closed"
  menuItemsRef,  \* Menu: menuItemsRef.value, "undefined", "null" or "ul"
  panelMounted,  \* the rendered output holds the Panel (the ul and its items)
  n,             \* number of items (children of the ul) of the Panel's slot
  focused,       \* the element that holds input focus (document.activeElement)
  queue,         \* microtasks not yet run, oldest first
  op,            \* history: the step taken last, with the state it started in
  ev,            \* history: the input event handled last
  onlyToggles,   \* history: every input event so far was a Trigger click
  toggleParity,  \* history: number of Trigger clicks so far, modulo 2
  mount,         \* a component tree being mounted (MountSpec)
  ta             \* the Textarea component (TextareaSpec)

vars == <<menuState, menuItemsRef, panelMounted, n, focused, queue, op, ev,
          onlyToggles, toggleParity, mount, ta>>

\* ---------------------------------------------------------------- elements
El(k, i)  == [k |-> k, i |-> i]
Body      == El("body", 0)      \* nothing holds focus
Button    == El("button", 0)    \* the Trigger's button
Item(i)   == El("item", i)      \* the li at index i of the ul
Nested(i) == El("nested", i)    \* a focusable element inside item i
Outside   == El("outside", 0)   \* an element elsewhere in the page
Null      == El("null", 0)      \* no element

Items == {Item(i) : i \in 0..(n - 1)}
InPanel(e) == e.k \in {"item", "nested"}

\* The elements input focus can be on, given what is rendered.
Focusable(dom) ==
  {Body, Button, Outside}
    \cup (IF dom THEN Items \cup {Nested(i) : i \in 0..(n - 1)} ELSE {})

\* ------------------------------------------------------------- enumerations
MenuStates   == {"Opened", "Closed"}
Focus        == {"first", "previous", "next", "last"}
KeysSpace    == "Space"
KeysEnter    == "Enter"
KeysEscape   == "Escape"
KeysArrowUp  == "ArrowUp"
KeysArrowDown == "ArrowDown"
KeysTab      == "Tab"               \* stands for every key no handler names
Keys == {KeysSpace, KeysEnter, KeysEscape, KeysArrowUp, KeysArrowDown, KeysTab}

\* A focus request: one of the Focus members, or a number.
Target(t, k) == [t |-> t, k |-> k]
Targets == {Target(t, 0) : t \in Focus}
             \cup {Target("index", k) : k \in (-1)..MaxItems}
NoTarget == Target("none", 0)

\* ------------------------------------------------------------- Menu (73-125)
\* Variant of closeMenu that flips the state instead of closing it.
closeMenu_Toggle == IF menuState = "Opened" THEN "Closed" ELSE "Opened"

\* Variant of openMenu that flips the state instead of opening it.
openMenu_Toggle == IF menuState = "Opened" THEN "Closed" ELSE "Opened"

\* closeMenu / openMenu: the value written to menuState.value.
closeMenu == "Closed"
openMenu  == "Opened"

HasFlush(q) == \E p \in 1..Len(q) : q[p] = "flush"

\* Variant of the ref setter that discards what was pending when the state
\* changes.
SetMenuState_Cancel(q, new) ==
  IF new # menuState THEN <<"flush">> ELSE q

\* Writing a ref queues the component's render job when the value changes
\* and the job is not queued already.
SetMenuState(q, new) ==
  IF new # menuState /\ ~HasFlush(q) THEN Append(q, "flush") ELSE q

\* Variant of nextTick that runs the callback ahead of what is pending (the
\* callback invoked without waiting for the render pass).
nextTick_BeforeFlush(q, cb) == <<cb>> \o q

\* nextTick(cb): cb runs after the pending flush, if any, and after every
\* microtask registered before it.
nextTick(q, cb) == Append(q, cb)

\* useActiveElement(): the element holding input focus.  When none does the
\* hook yields either the document body or no element at all.
ActiveElementValues == IF focused = Body THEN {Body, Null} ELSE {focused}

\* [...el.parentElement.children].indexOf(el): the positions el can have among
\* its siblings.  An item is a child of the ul, at its index; the body follows
\* the head; where any other element stands among its siblings depends on
\* the slot content and the page.
SiblingIndexes(e) ==
  CASE e.k = "item" -> {e.i}
    [] e.k = "body" -> {1}
    [] OTHER        -> 0..MaxSib

Outcome(fo, thrown) == [fo |-> fo, thrown |-> thrown]

\* Variant of the default case that wraps the index around the item list.
FocusIndex_Wrap(index) ==
  IF menuItemsRef = "ul" /\ n > 0
    THEN Outcome(Item(index % n), FALSE)
    ELSE Outcome(focused, FALSE)

\* Variant of the default case that focuses the item without looking at
\* the ref of the ul.
FocusIndex_NoRef(index) ==
  IF index \in 0..(n - 1)
    THEN Outcome(Item(index), FALSE)
    ELSE Outcome(focused, FALSE)

\* default case of focus: menuItemsRef.value?.children[index]?.focus()
FocusIndex(index) ==
  IF menuItemsRef = "ul" /\ index \in 0..(n - 1)
    THEN Outcome(Item(index), FALSE)
    ELSE Outcome(focused, FALSE)

\* Variant of case Focus.Last that indexes with the length itself.
FocusLast_Length == FocusIndex(n)

\* case Focus.Last
FocusLast == FocusIndex(n - 1)

\* Variant of Previous/Next with the direction reversed.
FocusRelative_Swapped(a, d) ==
  IF a = Null
    THEN {Outcome(focused, TRUE)}
    ELSE {FocusIndex(s - d) : s \in SiblingIndexes(a)}

\* Spreading undefined (no active element, or one without parent) throws.
FocusRelative(a, d) ==
  IF a = Null
    THEN {Outcome(focused, TRUE)}
    ELSE {FocusIndex(s + d) : s \in SiblingIndexes(a)}

\* focus(index): the outcomes of one call, as [fo, thrown].
focus(tg) ==
  CASE tg.t = "first"    -> {FocusIndex(0)}
    [] tg.t = "last"     -> {FocusLast}
    [] tg.t = "previous" -> UNION {FocusRelative(a, -1) : a \in ActiveElementValues}
    [] tg.t = "next"     -> UNION {FocusRelative(a, 1) : a \in ActiveElementValues}
    [] OTHER             -> {FocusIndex(tg.k)}

\* --------------------------------------------------------------- histories
\* op.pre is the state the step of the program started in.
Pre == [ms |-> menuState, fo |-> focused, dom |-> panelMounted]
Op(name, key, tg, thrown) ==
  [name |-> name, key |-> key, tg |-> tg, thrown |-> thrown, pre |-> Pre]
\* ev: the event, whether every microtask had run when it arrived, and the
\* state it found.
Ev(name, key) ==
  [name |-> name, key |-> key, quiet |-> queue = <<>>, ms |-> menuState]

\* An input event other than a Trigger click.
Event(name, key) ==
  /\ ev' = Ev(name, key)
  /\ onlyToggles' = FALSE
  /\ toggleParity' = toggleParity

\* The parts of the state the menu's specification leaves alone.
MountIdle == [stack |-> <<>>, error |-> "", last |-> "", rendered |-> FALSE,
              anc |-> <<>>]
TaIdle    == [mode |-> "none"]
Others    == <<mount, ta>>

\* -------------------------------------------------------------------- Init
MenuInit ==
  /\ menuState = "Closed"
  /\ menuItemsRef = "undefined"
  /\ panelMounted = FALSE
  /\ n \in 0..MaxItems
  /\ focused \in {Body, Button}
  /\ queue = <<>>
  /\ op = [name |-> "init", key |-> "", tg |-> NoTarget, thrown |-> FALSE,
           pre |-> [ms |-> "Closed", fo |-> focused, dom |-> FALSE]]
  /\ ev = [name |-> "init", key |-> "", quiet |-> TRUE, ms |-> "Closed"]
  /\ onlyToggles = TRUE
  /\ toggleParity = 0

Init == MenuInit /\ mount = MountIdle /\ ta = TaIdle

\* ------------------------------------------------------ MenuButton (129-176)
\* Variant of handleClick that decides on what is rendered, not on the state.
ButtonHandleClick_FromRendered == IF panelMounted THEN closeMenu ELSE openMenu

\* handleClick: the state a pointer activation of the Trigger writes.
ButtonHandleClick == IF menuState = "Opened" THEN closeMenu ELSE openMenu

TriggerClick ==
  /\ menuState' = ButtonHandleClick
  /\ queue' = SetMenuState(queue, menuState')
  /\ Len(queue') <= MaxQueue
  /\ op' = Op("triggerClick", "", NoTarget, FALSE)
  /\ ev' = Ev("triggerClick", "")
  /\ toggleParity' = 1 - toggleParity
  /\ UNCHANGED <<menuItemsRef, panelMounted, n, focused, onlyToggles, Others>>

\* Variant of the key list with Escape falling into the opening case.
ButtonOpenKeys_WithEscape ==
  {KeysSpace, KeysEnter, KeysArrowDown, KeysArrowUp, KeysEscape}

\* handleKeyDown: the keys that open the menu.
ButtonOpenKeys == {KeysSpace, KeysEnter, KeysArrowDown, KeysArrowUp}

TriggerKeyDown(key) ==
  /\ focused = Button
  /\ IF key \in ButtonOpenKeys
       THEN /\ menuState' = openMenu
            /\ queue' = nextTick(SetMenuState(queue, openMenu), "focusFirst")
       ELSE UNCHANGED <<menuState, queue>>
  /\ Len(queue') <= MaxQueue
  /\ op' = Op("triggerKey", key, NoTarget, FALSE)
  /\ Event("triggerKey", key)
  /\ UNCHANGED <<menuItemsRef, panelMounted, n, focused, Others>>

\* ------------------------------------------------------- MenuItem (219-253)
\* handleClick, and handleKeyDown for Enter and Space: close the menu, then
\* give the focus back to the menu button on the next tick.
ItemActivateKeys == {KeysEnter, KeysSpace}

ItemActivate ==
  /\ menuState' = closeMenu
  /\ queue' = nextTick(SetMenuState(queue, closeMenu), "focusButton")
  /\ Len(queue') <= MaxQueue
  /\ UNCHANGED <<menuItemsRef, panelMounted, n, focused, Others>>

\* A click on the item at index i; the item is in the rendered output.
ItemClick(i) ==
  /\ panelMounted
  /\ i \in 0..(n - 1)
  /\ ItemActivate
  /\ op' = Op("itemClick", "", NoTarget, FALSE)
  /\ Event("itemClick", "")

\* A keydown whose target is an item or lies inside one: the item's handler
\* takes Enter and Space and stops their propagation.
ItemKeyDown(key) ==
  /\ panelMounted
  /\ InPanel(focused)
  /\ key \in ItemActivateKeys
  /\ ItemActivate
  /\ op' = Op("itemKey", key, NoTarget, FALSE)
  /\ Event("itemKey", key)

\* ------------------------------------------------------ MenuItems (178-215)
\* handleKeyDown of the ul, for the keys the item's handler lets through.
PanelKeyDown(key) ==
  /\ panelMounted
  /\ InPanel(focused)
  /\ key \notin ItemActivateKeys
  /\ CASE key = KeysEscape ->
            /\ menuState' = closeMenu
            /\ queue' = nextTick(SetMenuState(queue, closeMenu), "focusPanel")
            /\ focused' = focused
            /\ op' = Op("panelKey", key, NoTarget, FALSE)
       [] key = KeysArrowUp ->
            \E r \in focus(Target("previous", 0)) :
              /\ focused' = r.fo
              /\ op' = Op("panelKey", key, Target("previous", 0), r.thrown)
              /\ UNCHANGED <<menuState, queue>>
       [] key = KeysArrowDown ->
            \E r \in focus(Target("next", 0)) :
              /\ focused' = r.fo
              /\ op' = Op("panelKey", key, Target("next", 0), r.thrown)
              /\ UNCHANGED <<menuState, queue>>
       [] OTHER ->
            /\ op' = Op("panelKey", key, NoTarget, FALSE)
            /\ UNCHANGED <<menuState, queue, focused>>
  /\ Len(queue') <= MaxQueue
  /\ Event("panelKey", key)
  /\ UNCHANGED <<menuItemsRef, panelMounted, n, Others>>

\* Variant of the render function that always renders the Panel.
RenderPanel_Always(ms) == TRUE

\* The render function: the Panel is part of the output iff the state is
\* Opened; otherwise the function returns nothing.
RenderPanel(ms) == ms = "Opened"

\* The ul is rendered without a tabindex, so it cannot take the focus.
UlFocusable == FALSE

\* --------------------------------------------------- the Container's focus
\* api.focus(index), called with any request.
CallFocus(tg) ==
  /\ \E r \in focus(tg) :
       /\ focused' = r.fo
       /\ op' = Op("focus", "", tg, r.thrown)
  /\ Event("focus", "")
  /\ UNCHANGED <<menuState, menuItemsRef, panelMounted, n, queue, Others>>

\* ------------------------------------------------------------ the user
\* The user moves the input focus (Tab, pointer) to a rendered element, or
\* away from every element.  No handler of the menu runs; op.pre records the
\* state the move leads to.
UserFocus(e) ==
  /\ e \in Focusable(panelMounted)
  /\ e # focused
  /\ focused' = e
  /\ op' = [Op("userFocus", "", NoTarget, FALSE) EXCEPT !.pre.fo = e]
  /\ Event("userFocus", "")
  /\ UNCHANGED <<menuState, menuItemsRef, panelMounted, n, queue, Others>>

\* ---------------------------------------------------------- microtasks
Microtask(name) ==
  /\ queue # <<>>
  /\ Head(queue) = name
  /\ queue' = Tail(queue)
  /\ op' = Op(name, "", NoTarget, FALSE)
  /\ UNCHANGED <<n, ev, onlyToggles, toggleParity, Others>>

\* Variant in which the ref keeps the ul after it left the output.
RefAfterRender_Kept(shown) == IF shown THEN "ul" ELSE menuItemsRef

\* The ref of the ul after a render pass: set on mount, null on unmount.
RefAfterRender(shown) ==
  IF shown THEN "ul" ELSE IF panelMounted THEN "null" ELSE menuItemsRef

\* The scheduler's flush: the render pass.  An element that leaves the
\* document loses the focus.
Flush ==
  /\ Microtask("flush")
  /\ panelMounted' = RenderPanel(menuState)
  /\ menuItemsRef' = RefAfterRender(panelMounted')
  /\ focused' = IF InPanel(focused) /\ ~panelMounted' THEN Body ELSE focused
  /\ UNCHANGED menuState

\* nextTick(() => api.focus(Focus.First))                       (143-145)
RunFocusFirst ==
  /\ Microtask("focusFirst")
  /\ \E r \in focus(Target("first", 0)) : focused' = r.fo
  /\ UNCHANGED <<menuState, menuItemsRef, panelMounted>>

\* api.menuItemsRef.value?.focus()                              (188-190)
FocusPanelRoot ==
  IF menuItemsRef = "ul" /\ UlFocusable THEN El("ul", 0) ELSE focused

RunFocusPanel ==
  /\ Microtask("focusPanel")
  /\ focused' = FocusPanelRoot
  /\ UNCHANGED <<menuState, menuItemsRef, panelMounted>>

\* Variant of the Item's callback that focuses nothing.
FocusMenuButton_None == focused

\* api.menuButtonRef.value?.focus(); the button is always rendered.
FocusMenuButton == Button

RunFocusButton ==
  /\ Microtask("focusButton")
  /\ focused' = FocusMenuButton
  /\ UNCHANGED <<menuState, menuItemsRef, panelMounted>>

\* ------------------------------------------------------------------- Next
Next ==
  \/ TriggerClick
  \/ \E key \in Keys : TriggerKeyDown(key)
  \/ \E i \in 0..(MaxItems - 1) : ItemClick(i)
  \/ \E key \in Keys : ItemKeyDown(key)
  \/ \E key \in Keys : PanelKeyDown(key)
  \/ \E tg \in Targets : CallFocus(tg)
  \/ \E e \in Focusable(TRUE) : UserFocus(e)
  \/ Flush
  \/ RunFocusFirst
  \/ RunFocusPanel
  \/ RunFocusButton

Spec == Init /\ [][Next]_vars

TypeOK ==
  /\ menuState \in MenuStates
  /\ menuItemsRef \in {"undefined", "null", "ul"}
  /\ panelMounted \in BOOLEAN
  /\ n \in 0..MaxItems
  /\ Len(queue) <= MaxQueue
\* ================================================================== claims
FocusCallOps  == {"focus", "focusFirst"}
DeferredOps   == {"flush", "focusFirst", "focusPanel", "focusButton"}
ItemOps       == {"itemClick", "itemKey"}

\* One step obeys the transition table of the Container.
C1_StepOk ==
  /\ menuState' # menuState =>
       \/ /\ menuState = "Closed" /\ menuState' = "Opened"
          /\ \/ op'.name = "triggerClick"
             \/ /\ op'.name = "triggerKey"
                /\ op'.key \in {"Enter", "Space", "ArrowDown", "ArrowUp"}
       \/ /\ menuState = "Opened" /\ menuState' = "Closed"
          /\ \/ op'.name \in {"triggerClick", "itemClick"}
             \/ op'.name = "itemKey" /\ op'.key \in {"Enter", "Space"}
             \/ op'.name = "panelKey" /\ op'.key = "Escape"
  /\ (\/ op'.name \in FocusCallOps \cup DeferredOps
      \/ op'.name = "panelKey" /\ op'.key \in {"ArrowUp", "ArrowDown"})
       => menuState' = menuState

\* C1: MenuState starts Closed and changes only Closed -> Open on a Trigger
\* click or a Trigger keydown of Enter, Space, ArrowDown or ArrowUp, and
\* Open -> Closed on a Trigger click, an Item activation (click, Enter,
\* Space) or Escape in the Panel; ArrowUp/ArrowDown in the Panel, focus(target)
\* calls and deferred callbacks leave it unchanged.
C1_Transitions == menuState = "Closed" /\ [][C1_StepOk]_vars

\* C1 witness: Escape in the Panel has just closed an open menu.
C1_Witness ==
  /\ op.name = "panelKey" /\ op.key = "Escape"
  /\ op.pre.ms = "Opened" /\ menuState = "Closed"

\* C2: after a sequence of Trigger clicks only, MenuState is Open iff the
\* number of clicks is odd, also when no render pass ran between the clicks.
C2_ToggleAlternates ==
  onlyToggles => (menuState = "Opened" <=> toggleParity = 1)

\* C2 witness: two clicks before the first render pass.
C2_Witness ==
  /\ onlyToggles /\ toggleParity = 0 /\ op.name = "triggerClick"
  /\ queue = <<"flush">> /\ menuItemsRef = "undefined" /\ menuState = "Closed"

\* C3 as stated: in every reachable state the Panel is in the rendered
\* output exactly when MenuState is Open.
C3_Original == panelMounted <=> (menuState = "Opened")

\* C3 amended: whenever no render pass is pending, the Panel is in the
\* rendered output exactly when MenuState is Open, and absent otherwise.
C3_RenderedIffOpen ==
  ~HasFlush(queue) =>
    /\ panelMounted <=> (menuState = "Opened")
    /\ ~panelMounted => menuItemsRef # "ul" /\ ~InPanel(focused)

\* C3 witness: a render pass has just put the Panel into the output.
C3_Witness ==
  op.name = "flush" /\ ~op.pre.dom /\ panelMounted /\ menuState = "Opened"
Last(q) == q[Len(q)]
OpenKeyEvent(e) ==
  e.name = "triggerKey" /\ e.key \in {"Enter", "Space", "ArrowDown", "ArrowUp"}
\* The event handled last arrived when no microtask was pending, and every
\* microtask it scheduled has run.
Settled == ev.quiet /\ queue = <<>>

\* C4: from Closed, a Trigger keydown of Enter, Space, ArrowDown or ArrowUp
\* sets MenuState to Open and schedules focus(First) behind the render pass;
\* with at least one item, once the pass and the request have run (and no
\* other input event was handled since) the Panel is rendered and the item
\* at index 0 holds the focus.
C4_KeyOpenFocusesFirst ==
  /\ (OpenKeyEvent(op) /\ op.pre.ms = "Closed") =>
       /\ menuState = "Opened"
       /\ \E p \in 1..(Len(queue) - 1) :
            queue[p] = "flush" /\ Last(queue) = "focusFirst"
  /\ (OpenKeyEvent(ev) /\ ev.ms = "Closed" /\ queue = <<>> /\ n >= 1) =>
       /\ menuState = "Opened" /\ panelMounted /\ menuItemsRef = "ul"
       /\ focused = Item(0)

\* C4 witness: the deferred focus(First) of a key-open has just moved the
\* focus from the Trigger to the first item of the rendered Panel.
C4_Witness ==
  /\ OpenKeyEvent(ev) /\ ev.ms = "Closed" /\ Settled /\ n >= 1
  /\ op.name = "focusFirst" /\ op.pre.fo = Button /\ focused = Item(0)

\* C5: activating an Item (click, Enter, Space) leaves MenuState Closed,
\* whatever it was before, Closed included.
C5_ItemActivationCloses ==
  op.name \in ItemOps => menuState = "Closed"

\* C5 witness: an Item was activated while MenuState was already Closed (the
\* Panel was still in the rendered output).
C5_Witness ==
  op.name \in ItemOps /\ op.pre.ms = "Closed" /\ op.pre.dom /\ menuState = "Closed"

\* C6: an Item activation closes the menu and schedules the focus on the
\* Trigger behind the render pass; once both have run (and no other input
\* event was handled since) the menu is closed, the Panel is gone and the
\* Trigger's button holds the focus.
C6_ItemActivationFocusesTrigger ==
  /\ op.name \in ItemOps =>
       /\ menuState = "Closed"
       /\ Len(queue) >= 1 /\ Last(queue) = "focusButton"
       /\ op.pre.ms = "Opened" => HasFlush(queue)
  /\ (ev.name \in ItemOps /\ queue = <<>>) =>
       menuState = "Closed" /\ ~panelMounted /\ focused = Button

\* C6 witness: after an Item activation the render pass removed the Panel
\* and the deferred callback has just moved the focus to the Trigger.
C6_Witness ==
  /\ ev.name \in ItemOps /\ Settled /\ ev.ms = "Opened"
  /\ op.name = "focusButton" /\ op.pre.fo = Body /\ focused = Button

\* C7 as stated: after Escape in the open Panel and the next render pass,
\* MenuState is Closed and the Panel's root element holds the focus.
C7_EscapeFocusesPanelRoot ==
  (ev.name = "panelKey" /\ ev.key = "Escape" /\ Settled) =>
    menuState = "Closed" /\ focused = El("ul", 0)

\* The steps in which the program itself may move the focus.
ProgramFocusOps == {"focus", "panelKey", "focusFirst", "focusPanel", "focusButton"}

\* C8 as stated: the focus is moved by the program (focus(target), the
\* deferred callbacks of Escape and of an Item) only while MenuState is Open
\* and the Panel is rendered.
C8_Original ==
  (op.name \in ProgramFocusOps /\ focused # op.pre.fo) =>
    op.pre.ms = "Opened" /\ op.pre.dom

\* C8 amended: focus(target) moves the focus only onto an item of a Panel
\* that is in the rendered output; the Escape handler's deferred callback
\* moves it nowhere; the Item's deferred callback puts it on the Trigger
\* whatever the state, normally after the Panel has been removed.
C8_FocusMovesOnlyIntoRenderedPanel ==
  /\ (op.name \in {"focus", "panelKey", "focusFirst"} /\ focused # op.pre.fo) =>
       op.pre.dom /\ panelMounted /\ focused \in Items
  /\ op.name = "focusPanel" => focused = op.pre.fo
  /\ op.name = "focusButton" => focused = Button

\* C8 witness: a deferred focus(First) moved the focus onto an item.
C8_Witness ==
  /\ op.name = "focusFirst" /\ focused # op.pre.fo /\ focused = Item(0)
  /\ op.pre.dom /\ op.pre.ms = "Opened"

\* C9 as stated: focus(target) never raises, and focus(Previous)/focus(Next)
\* with no element holding focus, or one that is no item, moves the focus to
\* no element.
C9_FocusIsTotal ==
  /\ ~op.thrown
  /\ (op.name = "focus" /\ op.tg.t \in {"previous", "next"}
        /\ op.pre.fo.k \in {"body", "button", "outside"}) => focused = op.pre.fo

\* The step o was a focus request resolving to no index of 0..n-1.
OutOfRange(o) ==
  \/ o.tg.t = "previous" /\ o.pre.fo = Item(0)
  \/ o.tg.t = "next" /\ o.pre.fo = Item(n - 1)
  \/ o.tg.t \in {"first", "last"} /\ n = 0
  \/ o.tg.t = "index" /\ (o.tg.k < 0 \/ o.tg.k >= n)
  \/ o.name = "focusFirst" /\ n = 0

\* C10: a focus request that resolves to an index outside 0..n-1 changes
\* neither the focused element nor MenuState and raises nothing: Previous
\* at the first item, Next at the last, First or Last with no items, and
\* an explicit index k < 0 or k >= n.
C10_OutOfRangeIsNoop ==
  OutOfRange(op) =>
    focused = op.pre.fo /\ menuState = op.pre.ms /\ ~op.thrown

\* C10 witness: ArrowUp in a rendered Panel of two or more items while the
\* first item holds the focus.
C10_Witness ==
  /\ op.name = "panelKey" /\ op.key = "ArrowUp" /\ op.tg.t = "previous"
  /\ op.pre.fo = Item(0) /\ n >= 2 /\ panelMounted /\ focused = Item(0)
\* ------------------------------------------------------------------- C11
HandlerOps  == {"triggerClick", "triggerKey", "itemClick", "itemKey", "panelKey"}
FocusTasks  == {"focusFirst", "focusPanel", "focusButton"}
RunHead     == Flush \/ RunFocusFirst \/ RunFocusPanel \/ RunFocusButton

\* One step treats the microtask queue as a queue: it leaves it alone, runs
\* exactly its head, or (an input event) appends to it; a callback scheduled
\* together with a state change stands behind a render pass.
C11_QueueStep ==
  /\ \/ queue' = queue
     \/ queue # <<>> /\ queue' = Tail(queue) /\ op'.name = Head(queue)
     \/ /\ op'.name \notin DeferredOps
        /\ Len(queue') > Len(queue)
        /\ SubSeq(queue', 1, Len(queue)) = queue
  /\ (menuState' # menuState /\ Len(queue') > Len(queue)
        /\ Last(queue') \in FocusTasks) =>
       \E p \in 1..(Len(queue') - 1) : queue'[p] = "flush"

\* No handler of the menu runs while a deferred focus request is pending.
C11_NoEventBeforeRequest ==
  op'.name \in HandlerOps => \A p \in 1..Len(queue) : queue[p] \notin FocusTasks

\* C11 as stated: every deferred focus request runs exactly once, behind the
\* render pass of the state change that scheduled it and before any further
\* input event is handled; nothing cancels or drops it.
C11_Original ==
  /\ [](queue # <<>> => ENABLED RunHead)
  /\ [][C11_QueueStep /\ C11_NoEventBeforeRequest]_vars

\* C11 amended: every deferred focus request runs exactly once, in the order
\* scheduled and behind the render pass of the state change that scheduled
\* it; it can always run and nothing cancels or drops it.  Input events
\* dispatched before the microtasks have drained are handled before it.
C11_RequestsRunOnceInOrder ==
  /\ [](queue # <<>> => ENABLED RunHead)
  /\ [][C11_QueueStep]_vars

\* C11 witness: a deferred focus(First) has run although an Item was
\* activated after it was scheduled and before it ran.
C11_Witness ==
  /\ op.name = "focusFirst" /\ ev.name \in ItemOps /\ ~ev.quiet
  /\ Len(queue) >= 1 /\ Last(queue) = "focusButton"

\* ------------------------------------------------------------ C13 .. C17
ArrowStep(o, key) == o.name = "panelKey" /\ o.key = key

\* C13: with the Panel rendered and item i focused, ArrowDown in the Panel
\* moves the focus to item i+1 when i+1 < n, ArrowUp to item i-1 when i >= 1.
C13_ArrowsMoveToNeighbour ==
  /\ (ArrowStep(op, "ArrowDown") /\ op.pre.fo.k = "item" /\ op.pre.fo.i + 1 < n)
       => focused = Item(op.pre.fo.i + 1) /\ ~op.thrown
  /\ (ArrowStep(op, "ArrowUp") /\ op.pre.fo.k = "item" /\ op.pre.fo.i >= 1)
       => focused = Item(op.pre.fo.i - 1) /\ ~op.thrown

\* C13 witness: ArrowDown has moved the focus from the first item to the
\* second.
C13_Witness ==
  /\ ArrowStep(op, "ArrowDown") /\ op.pre.fo = Item(0) /\ op.pre.ms = "Opened"
  /\ focused = Item(1)

\* C14: with the Panel rendered and n >= 1 items, focus(First) focuses item
\* 0, focus(Last) item n-1 and focus(k), 0 <= k < n, item k, whatever held
\* the focus before.
C14_AbsoluteTargets ==
  (op.name \in FocusCallOps /\ op.pre.dom /\ n >= 1) =>
    /\ (op.name = "focusFirst" \/ op.tg.t = "first") => focused = Item(0)
    /\ op.tg.t = "last" => focused = Item(n - 1)
    /\ (op.tg.t = "index" /\ op.tg.k \in 0..(n - 1)) => focused = Item(op.tg.k)
    /\ op.tg.t \in {"first", "last", "index"} => ~op.thrown

\* C14 witness: focus(Last) has moved the focus from the Trigger to the
\* last of two or more items.
C14_Witness ==
  /\ op.name = "focus" /\ op.tg.t = "last" /\ op.pre.dom /\ n >= 2
  /\ op.pre.fo = Button /\ focused = Item(n - 1)

\* C15: a Trigger keydown never closes the menu; on an open menu Enter,
\* Space, ArrowDown and ArrowUp leave it open and still schedule
\* focus(First), which puts the focus on item 0 once it has run.
C15_KeyNeverCloses ==
  /\ (op.name = "triggerKey" /\ op.pre.ms = "Opened") => menuState = "Opened"
  /\ OpenKeyEvent(op) =>
       menuState = "Opened" /\ Len(queue) >= 1 /\ Last(queue) = "focusFirst"
  /\ (OpenKeyEvent(ev) /\ ev.ms = "Opened" /\ queue = <<>> /\ n >= 1) =>
       menuState = "Opened" /\ panelMounted /\ focused = Item(0)

\* C15 witness: a key-open on an open, rendered menu; its focus(First) has
\* moved the focus from the Trigger to item 0.
C15_Witness ==
  /\ OpenKeyEvent(ev) /\ ev.ms = "Opened" /\ Settled
  /\ op.name = "focusFirst" /\ op.pre.fo = Button /\ focused = Item(0)
  /\ menuState = "Opened"

\* C16 as stated: a deferred focus(First) that runs after the menu was
\* closed again finds no rendered Panel, focuses no item, raises nothing
\* and leaves MenuState Closed.
C16_Original ==
  (op.name = "focusFirst" /\ op.pre.ms = "Closed") =>
    /\ ~op.pre.dom /\ focused = op.pre.fo
    /\ ~op.thrown /\ menuState = "Closed"

\* C16 amended: a deferred focus(First) that runs after the menu was closed
\* again raises nothing and leaves MenuState Closed; it focuses no item when
\* the render pass has already removed the Panel (always so when no render
\* pass is pending); while the Panel is still in the rendered output it
\* focuses item 0.
C16_StaleRequest ==
  (op.name = "focusFirst" /\ op.pre.ms = "Closed") =>
    /\ ~op.thrown /\ menuState = "Closed"
    /\ ~HasFlush(queue) => ~op.pre.dom
    /\ ~op.pre.dom => focused = op.pre.fo
    /\ (op.pre.dom /\ n >= 1) => focused = Item(0)

\* C16 witness: key-open, then a close before the render pass; the request
\* ran with no Panel rendered and left the focus on the Trigger.
C16_Witness ==
  /\ op.name = "focusFirst" /\ op.pre.ms = "Closed" /\ ~op.pre.dom
  /\ n >= 1 /\ op.pre.fo = Button /\ focused = Button /\ menuState = "Closed"

\* C17 as stated: ArrowDown/ArrowUp in the Panel move the focus only to an
\* item adjacent to the focused item, and to no item at all when the focused
\* element is nested inside an item.
C17_ArrowsOnlyToAdjacent ==
  (ArrowStep(op, "ArrowDown") \/ ArrowStep(op, "ArrowUp")) =>
    /\ op.pre.fo.k = "item" =>
         focused \in {op.pre.fo, Item(op.pre.fo.i - 1), Item(op.pre.fo.i + 1)}
    /\ op.pre.fo.k = "nested" => focused = op.pre.fo

\* =============================================== mounting (useMenuContext)
\* The components of the file, and "Other" for anything else in a tree.
Descendants == {"MenuButton", "MenuItems", "MenuItem"}
Components  == {"Menu", "Other"} \cup Descendants

\* inject(MenuContext): the context a Menu among the ancestors provided
\* (line 122), or none.
Inject(stack) == \E p \in 1..Len(stack) : stack[p] = "Menu"

\* The name each component passes to useMenuContext (lines 130, 179, 220).
ContextName(c) ==
  CASE c = "MenuButton" -> "MenuButton"
    [] c = "MenuItems"  -> "MenuItems"
    [] c = "MenuItem"   -> "MenuItem"

MissingParent(component) ==
  "<" \o component \o "> is missing a parent <Menu /> component."

\* Variant of useMenuContext without the check of the injected value.
useMenuContext_NoCheck(component, stack) == ""

\* useMenuContext(component): the message of the Error thrown, "" if none.
useMenuContext(component, stack) ==
  IF ~Inject(stack) THEN MissingParent(component) ELSE ""

\* The setup function of c, run below the components of mount.stack: the
\* error it throws, "" if it returns its render function.
Setup(c) ==
  IF c \in Descendants THEN useMenuContext(ContextName(c), mount.stack) ELSE ""

\* Component c is mounted as a child of the innermost component still open.
\* A setup function that throws renders nothing and aborts the mount.
MountComponent(c) ==
  /\ mount.error = ""
  /\ Len(mount.stack) < MaxDepth
  /\ mount' = [stack    |-> IF Setup(c) = "" THEN Append(mount.stack, c)
                                              ELSE mount.stack,
               error    |-> Setup(c),
               last     |-> c,
               rendered |-> Setup(c) = "",
               anc      |-> mount.stack]
  /\ UNCHANGED <<menuState, menuItemsRef, panelMounted, n, focused, queue, op,
                 ev, onlyToggles, toggleParity, ta>>

\* The innermost open component has mounted all its children.
CloseComponent ==
  /\ mount.error = ""
  /\ mount.stack # <<>>
  /\ mount' = [mount EXCEPT !.stack = SubSeq(mount.stack, 1, Len(mount.stack) - 1)]
  /\ UNCHANGED <<menuState, menuItemsRef, panelMounted, n, focused, queue, op,
                 ev, onlyToggles, toggleParity, ta>>

MountInit ==
  /\ MenuInit /\ n = 0 /\ focused = Body
  /\ mount = MountIdle
  /\ ta = TaIdle

MountNext ==
  \/ \E c \in Components : MountComponent(c)
  \/ CloseComponent

MountSpec == MountInit /\ [][MountNext]_vars

\* The last component mounted has a Menu among its ancestors.
InsideMenu == \E p \in 1..Len(mount.anc) : mount.anc[p] = "Menu"

\* C12: mounting a MenuButton, MenuItems or MenuItem with no enclosing Menu
\* raises the missing-parent error at mount time, before the component
\* renders anything, and the error names the component; mounting it inside
\* a Menu raises nothing.
C12_MissingParentError ==
  mount.last \in {"MenuButton", "MenuItems", "MenuItem"} =>
    /\ ~InsideMenu =>
         /\ ~mount.rendered
         /\ mount.last = "MenuButton" =>
              mount.error = "<MenuButton> is missing a parent <Menu /> component."
         /\ mount.last = "MenuItems" =>
              mount.error = "<MenuItems> is missing a parent <Menu /> component."
         /\ mount.last = "MenuItem" =>
              mount.error = "<MenuItem> is missing a parent <Menu /> component."
    /\ InsideMenu => mount.error = "" /\ mount.rendered

\* C12 witness: a MenuItems mounted below other components, none of them a
\* Menu, has raised the error.
C12_Witness ==
  /\ mount.last = "MenuItems" /\ Len(mount.anc) >= 1 /\ ~InsideMenu
  /\ mount.error # "" /\ ~mount.rendered

\* ================================================== Textarea (part_000)
\* Texts are sequences of characters; a prop is absent or holds a text.
TextChars == {"a", "b"}
Texts     == UNION {[1..k -> TextChars] : k \in 0..MaxLen}
Absent    == [def |-> FALSE, s |-> <<>>]
Given(t)  == [def |-> TRUE, s |-> t]

\* props.defaultValue?.toString().length ?? 0
InitialCount(defaultValue) ==
  IF defaultValue.def THEN Len(defaultValue.s) ELSE 0

\* if (props.value): undefined and the empty string are falsy.
Truthy(value) == value.def /\ value.s # <<>>

\* The body of the effect: the count it leaves.
EffectCount(value, count) ==
  IF Truthy(value) THEN Len(value.s) ELSE count

\* handleInput: the count after an input event that left text t.
InputCount(t) == Len(t)

\* After the first render: the textarea shows the value prop, else the
\* default value, else nothing; the effect has yet to run.  The component
\* is given a value prop (controlled) or an optional defaultValue.
TaInit ==
  /\ MenuInit /\ n = 0 /\ focused = Body
  /\ mount = MountIdle
  /\ \E v \in {Absent} \cup {Given(t) : t \in Texts} :
     \E d \in {Absent} \cup {Given(t) : t \in Texts} :
       /\ ~(v.def /\ d.def)
       /\ ta = [mode   |-> IF v.def THEN "controlled" ELSE "uncontrolled",
                value  |-> v,
                text   |-> IF v.def THEN v.s ELSE d.s,
                count  |-> InitialCount(d),
                effect |-> TRUE,
                last   |-> "mount"]

MenuAndMount == <<menuState, menuItemsRef, panelMounted, n, focused, queue, op,
                  ev, onlyToggles, toggleParity, mount>>

\* useEffect(..., [props.value]) runs after the render that changed the prop.
TaEffect ==
  /\ ta.effect
  /\ ta' = [ta EXCEPT !.count = EffectCount(ta.value, ta.count),
                      !.effect = FALSE,
                      !.last = "effect"]
  /\ UNCHANGED MenuAndMount

\* The user edits the text to t.  handleInput sets the count; a controlled
\* textarea's parent takes the text over as the new value prop.
TaInput(t) ==
  /\ ~ta.effect
  /\ t # ta.text
  /\ ta' = [ta EXCEPT !.count = InputCount(t),
                      !.text = t,
                      !.value = IF ta.mode = "controlled" THEN Given(t) ELSE Absent,
                      !.effect = ta.mode = "controlled",
                      !.last = "input"]
  /\ UNCHANGED MenuAndMount

\* The parent of a controlled textarea renders it with another value prop.
TaSetValue(t) ==
  /\ ta.mode = "controlled"
  /\ ~ta.effect
  /\ t # ta.value.s
  /\ ta' = [ta EXCEPT !.value = Given(t),
                      !.text = t,
                      !.effect = TRUE,
                      !.last = "value"]
  /\ UNCHANGED MenuAndMount

TaNext ==
  \/ TaEffect
  \/ \E t \in Texts : TaInput(t)
  \/ \E t \in Texts : TaSetValue(t)

TextareaSpec == TaInit /\ [][TaNext]_vars

\* C18 as stated: once the effect of the last render has run, the count
\* displayed equals the length of the textarea's text, also after the value
\* prop changed to the empty string.
C18_CountEqualsLength ==
  ~ta.effect => ta.count = Len(ta.text)
====
